---- MODULE Spec2Model ----
(***************************************************************************)
(* Model of the calculator tokenizer (src/src/calc/tokenizer.rs), its      *)
(* token type (src/src/calc/token.rs) and the parser constructor           *)
(* (src/src/calc/parser.rs).                                               *)
(*                                                                         *)
(* A character is a one-character string, a text is a sequence of          *)
(* characters.  The character "~" stands for a numeric character outside   *)
(* ASCII (char::is_numeric holds, Decimal::from_str rejects it), "#" for   *)
(* a character no rule classifies.                                         *)
(***************************************************************************)
EXTENDS Integers, Sequences, FiniteSets, TLC

\* ------------------------------------------------------------------ bounds
\* longest text over Alphabet, longest call body over BodyAlphabet, and the
\* number of pulls that return nothing after which no further pull is made
MaxLen == 2
MaxBody == 3
MaxNones == 2
\* longest run of one repeated digit
MaxDigits == 30
\* most pulls made before the state is exported
MaxExportPulls == 1

\* ------------------------------------------------------- character classes
AsciiDigits == {"0", "1", "2", "3", "4", "5", "6", "7", "8", "9"}
OtherNumerics == {"~"}
Whitespaces == {" "}
AsciiLetters == {"a", "b", "f", "g", "n", "v", "l", "s", "x", "E", "F", "O"}

is_whitespace(c) == c \in Whitespaces
is_numeric(c) == c \in AsciiDigits \cup OtherNumerics
is_ascii_alphabetic(c) == c \in AsciiLetters

\* ------------------------------------------------------------------ tokens
Number(v) == [type |-> "Number", value |-> v]
Variable(s) == [type |-> "Variable", name |-> s]
Function(p, a) == [type |-> "Function", function_prefix |-> p, args |-> a]
Add == [type |-> "Add"]
Sub == [type |-> "Sub"]
Mul == [type |-> "Mul"]
Div == [type |-> "Div"]
Caret == [type |-> "Caret"]
LeftSmallParen == [type |-> "LeftSmallParen"]
RightSmallParen == [type |-> "RightSmallParen"]
LeftMidParen == [type |-> "LeftMidParen"]
RightMidParen == [type |-> "RightMidParen"]
LeftBigParen == [type |-> "LeftBigParen"]
RightBigParen == [type |-> "RightBigParen"]
LeftFuncParen == [type |-> "LeftFuncParen"]
RightFuncParen == [type |-> "RightFuncParen"]
Comma == [type |-> "Comma"]
EOF == [type |-> "EOF"]
\* Option<Token>::None
None == [type |-> "None"]

\* ------------------------------------------------------- scanner helpers
\* Peekable::next_if repeated while the predicate holds: the consumed run
\* and the rest.
RECURSIVE TakeRun(_, _)
TakeRun(s, P) ==
    IF s # <<>> /\ Head(s) \in P
    THEN LET r == TakeRun(Tail(s), P)
         IN [run |-> <<Head(s)>> \o r.run, rest |-> r.rest]
    ELSE [run |-> <<>>, rest |-> s]

RECURSIVE StripZeros(_)
StripZeros(d) ==
    IF Len(d) > 1 /\ Head(d) = "0" THEN StripZeros(Tail(d)) ELSE d

\* The largest Decimal, 2^96 - 1, as decimal digits.
DecimalMax ==
    <<"7","9","2","2","8","1","6","2","5","1","4","2","6","4","3","3","7","5",
      "9","3","5","4","3","9","5","0","3","3","5">>

DigitOrder == <<"0", "1", "2", "3", "4", "5", "6", "7", "8", "9">>

DigitValue(c) == (CHOOSE i \in 1..10 : DigitOrder[i] = c) - 1

RECURSIVE DigitsLeq(_, _)
DigitsLeq(a, b) ==
    IF a = <<>> THEN TRUE
    ELSE IF Head(a) # Head(b)
         THEN DigitValue(Head(a)) < DigitValue(Head(b))
         ELSE DigitsLeq(Tail(a), Tail(b))

\* number.parse::<Decimal>(): the exact value of the digit run (its digits
\* without leading zeros), or an error for a character that is not an
\* ASCII digit or a value above the largest Decimal.
parse_decimal(number) ==
    IF \E i \in 1..Len(number) : number[i] \notin AsciiDigits
    THEN [ok |-> FALSE, value |-> <<>>]
    ELSE LET v == StripZeros(number)
         IN IF Len(v) < Len(DecimalMax)
               \/ (Len(v) = Len(DecimalMax) /\ DigitsLeq(v, DecimalMax))
            THEN [ok |-> TRUE, value |-> v]
            ELSE [ok |-> FALSE, value |-> <<>>]

RECURSIVE SelectLetters(_)
SelectLetters(s) ==
    IF s = <<>> THEN <<>>
    ELSE IF is_whitespace(Head(s)) THEN SelectLetters(Tail(s))
         ELSE <<Head(s)>> \o SelectLetters(Tail(s))

\* the identifier ends at the first whitespace
collect_alphabetic_chars_stops_at_space(initial_char, expr) ==
    LET r == TakeRun(expr, AsciiLetters)
    IN [words |-> <<initial_char>> \o r.run, rest |-> r.rest]

collect_alphabetic_chars(initial_char, expr) ==
    LET r == TakeRun(expr, AsciiLetters \cup Whitespaces)
    IN [words |-> <<initial_char>> \o SelectLetters(r.run), rest |-> r.rest]

judge_function_part(expr) == expr # <<>> /\ Head(expr) = "<"

\* ------------------------------------------------- function grouping state
\* The locals of parse_function: args, current_param and the four counters.
\* done is set by the branches that break out of the loop.
InitialGrouping ==
    [args |-> <<>>, current_param |-> <<>>, angle |-> 0, paren |-> 0,
     bracket |-> 0, brace |-> 0, done |-> FALSE]

\* the slot is pushed even when the buffer is empty
add_current_tokens_to_args_keeps_empty(tokens, args) ==
    [tokens |-> <<>>, args |-> Append(args, tokens)]

add_current_tokens_to_args(tokens, args) ==
    IF tokens = <<>>
    THEN [tokens |-> tokens, args |-> args]
    ELSE [tokens |-> <<>>, args |-> Append(args, tokens)]

CloseSlot(st) ==
    LET r == add_current_tokens_to_args(st.current_param, st.args)
    IN [st EXCEPT !.current_param = r.tokens, !.args = r.args]

Push(st, t) == [st EXCEPT !.current_param = Append(@, t)]

\* a comma never separates two arguments
on_Comma_never_separates(st) == Push(st, Comma)

\* a comma separates two arguments even inside brackets
on_Comma_ignores_brackets(st) ==
    IF st.angle = 0 \/ st.angle = 1 THEN CloseSlot(st) ELSE Push(st, Comma)

on_Comma(st) ==
    IF st.paren > 0 \/ st.bracket > 0 \/ st.brace > 0 THEN Push(st, Comma)
    ELSE IF st.angle = 0 THEN CloseSlot(st)
    ELSE IF st.angle = 1 THEN CloseSlot(st)
    ELSE Push(st, Comma)

\* the call's own opening angle bracket is appended too
on_LeftFuncParen_appends_own(st) ==
    Push([st EXCEPT !.angle = @ + 1], LeftFuncParen)

on_LeftFuncParen(st) ==
    LET s1 == [st EXCEPT !.angle = @ + 1]
    IN IF s1.angle > 1 THEN Push(s1, LeftFuncParen) ELSE s1

\* the closing angle bracket never ends the call
on_RightFuncParen_stays_open(st) ==
    LET s1 == [st EXCEPT !.angle = @ - 1]
    IN IF s1.angle > 0 THEN Push(s1, RightFuncParen) ELSE s1

\* the call is closed inside open brackets
on_RightFuncParen_closes_inside_brackets(st) ==
    LET s1 == [st EXCEPT !.angle = @ - 1]
    IN IF s1.angle = 0 THEN [CloseSlot(s1) EXCEPT !.done = TRUE]
       ELSE IF s1.angle > 0 THEN Push(s1, RightFuncParen) ELSE s1

on_RightFuncParen(st) ==
    LET s1 == [st EXCEPT !.angle = @ - 1]
    IN IF s1.angle = 0 /\ s1.paren = 0 /\ s1.bracket = 0 /\ s1.brace = 0
       THEN [CloseSlot(s1) EXCEPT !.done = TRUE]
       ELSE IF s1.angle > 0 THEN Push(s1, RightFuncParen) ELSE s1

\* the last slot is closed without the EOF marker
on_EOF_without_marker(st) == [CloseSlot(st) EXCEPT !.done = TRUE]

on_EOF(st) == [CloseSlot(Push(st, EOF)) EXCEPT !.done = TRUE]

on_LeftSmallParen(st) == Push([st EXCEPT !.paren = @ + 1], LeftSmallParen)

\* the closing parenthesis is appended when no parenthesis is open
on_RightSmallParen_appends_unmatched(st) ==
    IF st.paren > 0
    THEN Push([st EXCEPT !.paren = @ - 1], RightSmallParen)
    ELSE Push(st, RightSmallParen)

on_RightSmallParen(st) ==
    IF st.paren > 0
    THEN LET s1 == [st EXCEPT !.paren = @ - 1]
         IN IF s1.paren > 0 \/ s1.angle > 0 \/ s1.bracket > 0 \/ s1.brace > 0
            THEN Push(s1, RightSmallParen)
            ELSE s1
    ELSE st

on_LeftMidParen(st) == Push([st EXCEPT !.bracket = @ + 1], LeftMidParen)

on_RightMidParen(st) ==
    IF st.bracket > 0
    THEN Push([st EXCEPT !.bracket = @ - 1], RightMidParen)
    ELSE st

on_LeftBigParen(st) == Push([st EXCEPT !.brace = @ + 1], LeftBigParen)

\* the closing brace is appended without lowering the counter
on_RightBigParen_keeps_count(st) ==
    IF st.brace > 0 THEN Push(st, RightBigParen) ELSE st

on_RightBigParen(st) ==
    IF st.brace > 0
    THEN Push([st EXCEPT !.brace = @ - 1], RightBigParen)
    ELSE st

RECURSIVE Flatten(_)
Flatten(ss) == IF ss = <<>> THEN <<>> ELSE Head(ss) \o Flatten(Tail(ss))

\* the tokens of a nested call are appended one by one
on_other_flattens(st, t) ==
    IF t.type = "Function"
    THEN [st EXCEPT !.current_param = @ \o Flatten(t.args)]
    ELSE Push(st, t)

on_other(st, t) == Push(st, t)

\* One iteration of the match in parse_function, on the token just pulled.
dispatch(st, token) ==
    CASE token.type = "Comma" -> on_Comma(st)
      [] token.type = "LeftFuncParen" -> on_LeftFuncParen(st)
      [] token.type = "RightFuncParen" -> on_RightFuncParen(st)
      [] token.type \in {"EOF", "None"} -> on_EOF(st)
      [] token.type = "LeftSmallParen" -> on_LeftSmallParen(st)
      [] token.type = "RightSmallParen" -> on_RightSmallParen(st)
      [] token.type = "LeftMidParen" -> on_LeftMidParen(st)
      [] token.type = "RightMidParen" -> on_RightMidParen(st)
      [] token.type = "LeftBigParen" -> on_LeftBigParen(st)
      [] token.type = "RightBigParen" -> on_RightBigParen(st)
      [] OTHER -> on_other(st, token)

\* ------------------------------------------------------------ pull result
\* What one call of next_token_internal leaves behind: the Option<Token> it
\* returns, the scanner and the end flag after it, whether it panicked,
\* the characters that reached the catch-all arm, and one record per
\* iteration of every parse_function loop it ran.
Res(tok, expr, end) ==
    [tok |-> tok, expression |-> expr, end |-> end, panic |-> FALSE,
     unclassified |-> <<>>, log |-> <<>>]

on_end_of_input(expr) == Res(EOF, expr, TRUE)

\* the unclassifiable character is left in the input
on_unexpected_keeps_char(c, rest, end) ==
    [Res(None, <<c>> \o rest, end) EXCEPT !.unclassified = <<c>>]

on_unexpected(c, rest, end) ==
    [Res(None, rest, end) EXCEPT !.unclassified = <<c>>]

\* only the first digit of the run is consumed
on_number_single_digit(num, rest, end) ==
    LET p == parse_decimal(<<num>>)
    IN IF p.ok THEN Res(Number(p.value), rest, end)
       ELSE [Res(None, rest, end) EXCEPT !.panic = TRUE]

on_number(num, rest, end) ==
    LET r == TakeRun(rest, AsciiDigits \cup OtherNumerics)
        p == parse_decimal(<<num>> \o r.run)
    IN IF p.ok THEN Res(Number(p.value), r.rest, end)
       ELSE [Res(None, r.rest, end) EXCEPT !.panic = TRUE]

SingleCharTokens ==
    [c \in {"+", "-", "*", "/", "^", "(", ")", "[", "]", "{", "}"} |->
        CASE c = "+" -> Add
          [] c = "-" -> Sub
          [] c = "*" -> Mul
          [] c = "/" -> Div
          [] c = "^" -> Caret
          [] c = "(" -> LeftSmallParen
          [] c = ")" -> RightSmallParen
          [] c = "[" -> LeftMidParen
          [] c = "]" -> RightMidParen
          [] c = "{" -> LeftBigParen
          [] c = "}" -> RightBigParen]

RECURSIVE next_token_internal(_, _, _, _, _)
RECURSIVE parse_function_loop(_, _, _, _, _, _)

parse_function(func_name, expr, end, depth) ==
    parse_function_loop(func_name, InitialGrouping, expr, end, depth,
                        [unclassified |-> <<>>, log |-> <<>>])

next_token_internal(expr, end, include_comma, include_right_func_paren, depth) ==
    IF end THEN Res(None, expr, end)
    ELSE IF expr = <<>> THEN on_end_of_input(expr)
    ELSE LET c == Head(expr)
             rest == Tail(expr)
         IN IF is_whitespace(c)
            THEN next_token_internal(TakeRun(rest, Whitespaces).rest, end,
                     include_comma, include_right_func_paren, depth)
            ELSE IF is_numeric(c) THEN on_number(c, rest, end)
            ELSE IF is_ascii_alphabetic(c)
            THEN LET w == collect_alphabetic_chars(c, rest)
                 IN IF judge_function_part(w.rest)
                    THEN parse_function(w.words, w.rest, end, depth + 1)
                    ELSE Res(Variable(w.words), w.rest, end)
            ELSE IF c \in DOMAIN SingleCharTokens
            THEN Res(SingleCharTokens[c], rest, end)
            ELSE IF c = ","
            THEN IF include_comma THEN Res(Comma, rest, end)
                 ELSE next_token_internal(rest, end, include_comma,
                          include_right_func_paren, depth)
            ELSE IF c = ">"
            THEN IF include_right_func_paren
                 THEN Res(RightFuncParen, rest, end)
                 ELSE next_token_internal(rest, end, include_comma,
                          include_right_func_paren, depth)
            ELSE IF c = "<" THEN Res(LeftFuncParen, rest, end)
            ELSE on_unexpected(c, rest, end)

parse_function_loop(func_name, st, expr, end, depth, acc) ==
    LET r == next_token_internal(expr, end, TRUE, TRUE, depth)
        st2 == dispatch(st, r.tok)
        rec == [depth |-> depth, func |-> func_name, at |-> expr,
                rest |-> r.expression, token |-> r.tok, before |-> st,
                after |-> st2]
        unc == acc.unclassified \o r.unclassified
    IN IF r.panic
       THEN [r EXCEPT !.unclassified = unc, !.log = acc.log \o r.log]
       ELSE IF st2.done
       THEN [tok |-> Function(func_name, st2.args),
             expression |-> r.expression, end |-> r.end, panic |-> FALSE,
             unclassified |-> unc, log |-> acc.log \o r.log \o <<rec>>]
       ELSE parse_function_loop(func_name, st2, r.expression, r.end, depth,
                [unclassified |-> unc, log |-> acc.log \o r.log \o <<rec>>])

\* --------------------------------------------------------------- inputs
Alphabet ==
    {"0", "1", "a", " ", "+", "-", "*", "/", "^", "(", ")", "[", "]", "{",
     "}", "<", ">", ",", "#", "~"}

BodyAlphabet == {"1", "a", ",", "(", ")", "[", "]", "<", ">", "#"}

Texts(A, n) == UNION {[1..k -> A] : k \in 0..n}

\* the inputs of the tests of tokenizer.rs and parser.rs, the examples of
\* the documentation, and longer calls
Examples ==
    { <<"1"," ","+"," ","2">>,
      <<"1"," ","+"," ","2"," ","*"," ","3"," ","-"," ","4"," ","/"," ","5",
        " ","^"," ","(","6"," ","+"," ","x",")">>,
      <<"n","v","l","<","1",",","0",">">>,
      <<"1"," ","+"," ","2"," ","*"," ","n","v","l"," ","<"," ","a","b","s",
        " ","<"," ","1"," ","+"," ","2"," ","*"," ","3"," ","+"," ","[",
        " ","(", " ","1","+"," ","3"," ",")"," ","/"," ","2"," ","]"," ",
        ")"," ",","," ","0"," ",">"," ",","," ","0"," ",">">>,
      <<"f","<","1",",",",","2",">">>,
      <<">", ",", "1">>,
      <<"f","<","1",")","+","2",">">>,
      <<"f","<","1","]","+","2",">">>,
      <<"f","<","1","}","+","2",">">>,
      <<"f","<","{","1",",","2","}",",","{","3","}",">","x">>,
      <<"f","<","g","<","1",",","2",">",",","3",">","+","1">>,
      <<"f","<","g","<","1",",",",","2",">",",",",","x",">">>,
      <<"f","<","g","<","s","<","1",">",",","2",">",">">>,
      <<"f","<","(","g","<","1",",","2",">",",","3",")",",","4",">">>,
      <<"f","<","g","<","1",",","2">>,
      <<"f","<","1","#","2",">","3">>,
      <<"a"," ","b"," ","<"," ","1"," ",">","0","0","7">>,
      <<"1","#","2">>,
      <<"f","<","(",">",")",",","1",">">> }

Inputs ==
    Texts(Alphabet, MaxLen)
        \cup {<<"f", "<">> \o b : b \in Texts(BodyAlphabet, MaxBody)}
        \cup Examples

\* ---------------------------------------------------------------- state
\* original_expression, expression, end, unexpected_char: the fields of
\* Tokenizer.  parser: the outcome of Parser::new.  The others record the
\* run: the results of the pulls made so far, the scanner before the last
\* pull, the characters that reached the catch-all arm, the iterations of
\* the grouping loops of the last pull, and whether the program panicked.
VARIABLES original_expression, expression, end, unexpected_char,
          yielded, before, unclassified, log, status, parser, returned,
          other

vars == <<original_expression, expression, end, unexpected_char,
          yielded, before, unclassified, log, status, parser, returned,
          other>>

\* no second tokenizer has been made
NoOther ==
    [state |-> "absent", original_expression |-> <<>>, expression |-> <<>>,
     end |-> FALSE, unexpected_char |-> <<>>, yielded |-> <<>>,
     from |-> <<>>, from_end |-> FALSE]

\* nothing has been returned by an operation other than a pull; one such
\* operation is observed between two pulls
NoReturn == [op |-> "none"]

NoParser == [result |-> "absent", current_token |-> None, char |-> <<>>]

\* Tokenizer::new(expression)
Tokenizer_new(text) ==
    /\ original_expression = text
    /\ expression = text
    /\ end = FALSE
    /\ unexpected_char = <<>>
    /\ yielded = <<>>
    /\ before = text
    /\ unclassified = <<>>
    /\ log = <<>>
    /\ status = "running"
    /\ parser = NoParser
    /\ returned = NoReturn
    /\ other = NoOther

Init == \E text \in Inputs : Tokenizer_new(text)

Nones(s) == Cardinality({i \in 1..Len(s) : s[i] = None})

\* the pull leaves the exhaustion flag as it was
Pull_leaves_end(r) ==
    /\ expression' = r.expression
    /\ end' = end
    /\ before' = expression
    /\ unclassified' = unclassified \o r.unclassified
    /\ log' = r.log
    /\ yielded' = IF r.panic THEN yielded ELSE Append(yielded, r.tok)
    /\ returned' = NoReturn
    /\ UNCHANGED <<original_expression, unexpected_char, other>>

\* The effect of one pull on the tokenizer's fields and on the record of
\* the run.
Pull(r) ==
    /\ expression' = r.expression
    /\ end' = r.end
    /\ before' = expression
    /\ unclassified' = unclassified \o r.unclassified
    /\ log' = r.log
    /\ yielded' = IF r.panic THEN yielded ELSE Append(yielded, r.tok)
    /\ returned' = NoReturn
    /\ UNCHANGED <<original_expression, unexpected_char, other>>

\* the top-level pull asks for commas and closing angle brackets
next_sees_separators ==
    /\ status = "running"
    /\ parser.result = "absent"
    /\ Nones(yielded) < MaxNones
    /\ LET r == next_token_internal(expression, end, TRUE, TRUE, 0)
       IN /\ Pull(r)
          /\ status' = IF r.panic THEN "panicked" ELSE status
    /\ UNCHANGED parser

\* Iterator::next on the tokenizer
next ==
    /\ status = "running"
    /\ parser.result = "absent"
    /\ Nones(yielded) < MaxNones
    /\ LET r == next_token_internal(expression, end, FALSE, FALSE, 0)
       IN /\ Pull(r)
          /\ status' = IF r.panic THEN "panicked" ELSE status
    /\ UNCHANGED parser

\* Tokenizer::get_unexpected_char
get_unexpected_char == [panic |-> TRUE, value |-> <<>>]

\* Parser::new(expression): a tokenizer over the text, its first pull, and
\* the token or the error made from get_unexpected_char().unwrap()
Parser_new ==
    /\ status = "running"
    /\ parser.result = "absent"
    /\ yielded = <<>>
    /\ LET r == next_token_internal(expression, end, FALSE, FALSE, 0)
           u == get_unexpected_char
       IN /\ Pull(r)
          /\ IF r.panic \/ (r.tok = None /\ (u.panic \/ u.value = <<>>))
             THEN /\ status' = "panicked"
                  /\ parser' = [NoParser EXCEPT !.result = "panicked"]
             ELSE IF r.tok = None
             THEN /\ status' = status
                  /\ parser' = [NoParser EXCEPT !.result = "Err",
                                                !.char = u.value]
             ELSE /\ status' = status
                  /\ parser' = [NoParser EXCEPT !.result = "Ok",
                                                !.current_token = r.tok]

\* Iterator::collect on a tokenizer: the tokens of its pulls up to the
\* first pull that returns nothing
RECURSIVE collect(_, _, _)
collect(expr, e, acc) ==
    LET r == next_token_internal(expr, e, FALSE, FALSE, 0)
    IN IF r.panic THEN [panic |-> TRUE, tokens |-> acc]
       ELSE IF r.tok = None THEN [panic |-> FALSE, tokens |-> acc]
       ELSE collect(r.expression, r.end, Append(acc, r.tok))

\* the export pulls the tokens from the tokenizer itself
Tokenizer_serialize_consumes ==
    /\ status = "running"
    /\ parser.result = "absent"
    /\ returned.op = "none"
    /\ Len(yielded) <= MaxExportPulls
    /\ LET r == next_token_internal(expression, end, FALSE, FALSE, 0)
           c == collect(expression, end, <<>>)
       IN /\ expression' = r.expression
          /\ end' = r.end
          /\ status' = IF c.panic THEN "panicked" ELSE status
          /\ returned' =
                 IF c.panic THEN [op |-> "serialize", panic |-> TRUE]
                 ELSE [op |-> "serialize", panic |-> FALSE,
                       original_expression |-> original_expression,
                       end |-> end,
                       unexpected_char |-> unexpected_char,
                       tokens |-> c.tokens]
    /\ UNCHANGED <<original_expression, unexpected_char, yielded, before,
                   unclassified, log, parser, other>>

\* Serialize for Tokenizer: the tokens collected from a clone, with the
\* tokenizer's own fields
Tokenizer_serialize ==
    /\ status = "running"
    /\ parser.result = "absent"
    /\ returned.op = "none"
    /\ Len(yielded) <= MaxExportPulls
    /\ LET c == collect(expression, end, <<>>)
       IN /\ status' = IF c.panic THEN "panicked" ELSE status
          /\ returned' =
                 IF c.panic THEN [op |-> "serialize", panic |-> TRUE]
                 ELSE [op |-> "serialize", panic |-> FALSE,
                       original_expression |-> original_expression,
                       end |-> end,
                       unexpected_char |-> unexpected_char,
                       tokens |-> c.tokens]
    /\ UNCHANGED <<original_expression, expression, end, unexpected_char,
                   yielded, before, unclassified, log, parser, other>>

\* ------------------------------------------------------------ precedence
\* enum OperatorPrecedence in declaration order, the order derive(Ord)
\* compares by
OperatorPrecedence ==
    <<"Default", "AddOrSubtract", "MultiplyOrDivide", "Power", "Negative",
      "Function">>

\* the derived comparison: a < b
precedence_lt(a, b) ==
    \E i, j \in 1..Len(OperatorPrecedence) :
        OperatorPrecedence[i] = a /\ OperatorPrecedence[j] = b /\ i < j

\* the power operator is given the level of multiplication
get_precedence_caret_as_multiply(tok) ==
    IF tok.type \in {"Add", "Sub"} THEN "AddOrSubtract"
    ELSE IF tok.type \in {"Mul", "Div", "Caret"} THEN "MultiplyOrDivide"
    ELSE IF tok.type = "Function" THEN "Function"
    ELSE "Default"

\* Token::get_precedence
get_precedence(tok) ==
    IF tok.type \in {"Add", "Sub"} THEN "AddOrSubtract"
    ELSE IF tok.type \in {"Mul", "Div"} THEN "MultiplyOrDivide"
    ELSE IF tok.type = "Caret" THEN "Power"
    ELSE IF tok.type = "Function" THEN "Function"
    ELSE "Default"

\* a token and the tokens held in its arguments
RECURSIVE SubTokens(_)
SubTokens(tok) ==
    {tok} \cup
        IF tok.type = "Function"
        THEN UNION {UNION {SubTokens(tok.args[i][j]) :
                               j \in 1..Len(tok.args[i])} :
                        i \in 1..Len(tok.args)}
        ELSE {}

\* get_precedence called on the parser's current token or on a token of
\* its arguments
Token_get_precedence ==
    /\ status = "running"
    /\ parser.result = "Ok"
    /\ \E tok \in SubTokens(parser.current_token) :
           returned' = [op |-> "get_precedence", token |-> tok,
                        level |-> get_precedence(tok)]
    /\ UNCHANGED <<original_expression, expression, end, unexpected_char,
                   yielded, before, unclassified, log, status, parser,
                   other>>

\* ------------------------------------------------------------- rendering
\* the sequences joined with sep between them
RECURSIVE Join(_, _)
Join(seqs, sep) ==
    IF seqs = <<>> THEN <<>>
    ELSE IF Len(seqs) = 1 THEN seqs[1]
    ELSE seqs[1] \o sep \o Join(Tail(seqs), sep)

\* Display for Token with the subtraction sign rendered as the addition sign
RECURSIVE fmt_sub_as_add(_)
fmt_sub_as_add(tok) ==
    CASE tok.type = "Number" -> tok.value
      [] tok.type = "Variable" -> tok.name
      [] tok.type \in {"Add", "Sub"} -> <<"+">>
      [] tok.type = "Mul" -> <<"mul_sign">>
      [] tok.type = "Div" -> <<"div_sign">>
      [] tok.type = "Function" ->
             tok.function_prefix \o <<"<">> \o
             Join([i \in 1..Len(tok.args) |->
                      Join([j \in 1..Len(tok.args[i]) |->
                               fmt_sub_as_add(tok.args[i][j])], <<" ">>)],
                  <<",">>)
             \o <<">">>
      [] tok.type = "Caret" -> <<"^">>
      [] tok.type = "LeftSmallParen" -> <<"(">>
      [] tok.type = "RightSmallParen" -> <<")">>
      [] tok.type = "LeftMidParen" -> <<"[">>
      [] tok.type = "RightMidParen" -> <<"]">>
      [] tok.type = "LeftBigParen" -> <<"{">>
      [] tok.type = "RightBigParen" -> <<"}">>
      [] tok.type = "Comma" -> <<",">>
      [] tok.type = "LeftFuncParen" -> <<"<">>
      [] tok.type = "RightFuncParen" -> <<">">>
      [] tok.type = "EOF" -> <<"E", "O", "F">>

\* Display for Token: the characters written for the token; "mul_sign"
\* and "div_sign" stand for the characters U+00D7 and U+00F7
RECURSIVE fmt(_)
fmt(tok) ==
    CASE tok.type = "Number" -> tok.value
      [] tok.type = "Variable" -> tok.name
      [] tok.type = "Add" -> <<"+">>
      [] tok.type = "Sub" -> <<"-">>
      [] tok.type = "Mul" -> <<"mul_sign">>
      [] tok.type = "Div" -> <<"div_sign">>
      [] tok.type = "Function" ->
             tok.function_prefix \o <<"<">> \o
             Join([i \in 1..Len(tok.args) |->
                      Join([j \in 1..Len(tok.args[i]) |->
                               fmt(tok.args[i][j])], <<" ">>)],
                  <<",">>)
             \o <<">">>
      [] tok.type = "Caret" -> <<"^">>
      [] tok.type = "LeftSmallParen" -> <<"(">>
      [] tok.type = "RightSmallParen" -> <<")">>
      [] tok.type = "LeftMidParen" -> <<"[">>
      [] tok.type = "RightMidParen" -> <<"]">>
      [] tok.type = "LeftBigParen" -> <<"{">>
      [] tok.type = "RightBigParen" -> <<"}">>
      [] tok.type = "Comma" -> <<",">>
      [] tok.type = "LeftFuncParen" -> <<"<">>
      [] tok.type = "RightFuncParen" -> <<">">>
      [] tok.type = "EOF" -> <<"E", "O", "F">>

NotEOF(tok) == tok # EOF

\* the tokens of a fresh tokenizer over the text, each written with fmt
\* (the end marker aside) with a space between them, and the tokens of a
\* tokenizer over the written text
Token_fmt ==
    /\ status = "running"
    /\ parser.result = "absent"
    /\ returned.op = "none"
    /\ yielded = <<>>
    /\ LET c == collect(expression, end, <<>>)
           shown == SelectSeq(c.tokens, NotEOF)
           text == Join([k \in 1..Len(shown) |-> fmt(shown[k])], <<" ">>)
           d == collect(text, FALSE, <<>>)
       IN /\ status' = IF c.panic THEN "panicked" ELSE status
          /\ returned' =
                 IF c.panic THEN [op |-> "fmt", panic |-> TRUE]
                 ELSE [op |-> "fmt", panic |-> d.panic, tokens |-> c.tokens,
                       text |-> text, again |-> d.tokens]
    /\ UNCHANGED <<original_expression, expression, end, unexpected_char,
                   yielded, before, unclassified, log, parser, other>>

Next ==
    \/ next
    \/ Parser_new
    \/ Tokenizer_serialize
    \/ Token_get_precedence
    \/ Token_fmt

Spec == Init /\ [][Next]_vars

\* ---------------------------------------------------------- two engines
\* longest text over Alphabet given to the first of two tokenizers
MaxTwoLen == 1

TwoInputs == Texts(Alphabet, MaxTwoLen) \cup Examples

\* texts given to the second tokenizer, besides the text of the first
OtherInputs ==
    { <<>>,
      <<"1", " ", "+", " ", "2">>,
      <<"n", "v", "l", "<", "1", ",", "0", ">">>,
      <<"1", "#", "2">> }

\* Tokenizer::new for a second tokenizer
Tokenizer_new_other ==
    /\ status = "running"
    /\ parser.result = "absent"
    /\ other.state = "absent"
    /\ \E text \in OtherInputs \cup {original_expression} :
           other' = [state |-> "running", original_expression |-> text,
                     expression |-> text, end |-> FALSE,
                     unexpected_char |-> <<>>, yielded |-> <<>>,
                     from |-> text, from_end |-> FALSE]
    /\ UNCHANGED <<original_expression, expression, end, unexpected_char,
                   yielded, before, unclassified, log, status, parser,
                   returned>>

\* Clone for Tokenizer: a second tokenizer with a copy of every field
Tokenizer_clone ==
    /\ status = "running"
    /\ parser.result = "absent"
    /\ other.state = "absent"
    /\ other' = [state |-> "running",
                 original_expression |-> original_expression,
                 expression |-> expression, end |-> end,
                 unexpected_char |-> unexpected_char, yielded |-> <<>>,
                 from |-> expression, from_end |-> end]
    /\ UNCHANGED <<original_expression, expression, end, unexpected_char,
                   yielded, before, unclassified, log, status, parser,
                   returned>>

\* the pull on the second tokenizer moves the first one's position too
other_next_shares_position ==
    /\ status = "running"
    /\ other.state = "running"
    /\ Nones(other.yielded) < MaxNones
    /\ LET r == next_token_internal(other.expression, other.end, FALSE,
                                    FALSE, 0)
       IN /\ status' = IF r.panic THEN "panicked" ELSE status
          /\ other' = IF r.panic THEN other
                      ELSE [other EXCEPT !.expression = r.expression,
                                         !.end = r.end,
                                         !.yielded = Append(@, r.tok)]
          /\ expression' = r.expression
    /\ UNCHANGED <<original_expression, end, unexpected_char,
                   yielded, before, unclassified, log, parser, returned>>

\* Iterator::next on the second tokenizer
other_next ==
    /\ status = "running"
    /\ other.state = "running"
    /\ Nones(other.yielded) < MaxNones
    /\ LET r == next_token_internal(other.expression, other.end, FALSE,
                                    FALSE, 0)
       IN /\ status' = IF r.panic THEN "panicked" ELSE status
          /\ other' = IF r.panic THEN other
                      ELSE [other EXCEPT !.expression = r.expression,
                                         !.end = r.end,
                                         !.yielded = Append(@, r.tok)]
    /\ UNCHANGED <<original_expression, expression, end, unexpected_char,
                   yielded, before, unclassified, log, parser, returned>>

InitTwo == \E text \in TwoInputs : Tokenizer_new(text)

NextTwo == next \/ Tokenizer_new_other \/ Tokenizer_clone \/ other_next

SpecTwo == InitTwo /\ [][NextTwo]_vars

\* ------------------------------------------------------ long digit runs
RECURSIVE Repeat(_, _)
Repeat(c, n) == IF n = 0 THEN <<>> ELSE <<c>> \o Repeat(c, n - 1)

\* 2^96, the first integer that is not a Decimal
DecimalOverflow ==
    SubSeq(DecimalMax, 1, Len(DecimalMax) - 1) \o <<"6">>

DigitRuns ==
    {Repeat(d, n) : d \in AsciiDigits, n \in 1..MaxDigits}
        \cup {DecimalMax, DecimalOverflow, <<"0">> \o DecimalMax}

DigitInputs == DigitRuns \cup {r \o <<"+", "1">> : r \in DigitRuns}

InitDigits == \E text \in DigitInputs : Tokenizer_new(text)

SpecDigits == InitDigits /\ [][Next]_vars

\* ------------------------------------------------------------ the stream
\* The tokens yielded until a pull yields nothing.
FirstNone(s) ==
    IF \E i \in 1..Len(s) : s[i] = None
    THEN CHOOSE i \in 1..Len(s) :
             s[i] = None /\ \A k \in 1..(i - 1) : s[k] # None
    ELSE Len(s) + 1

Stream == SubSeq(yielded, 1, FirstNone(yielded) - 1)

StreamOver == \E i \in 1..Len(yielded) : yielded[i] = None

\* C1: the stream taken until a pull yields nothing contains exactly one
\* EOF token, and that EOF is its last token.
C1_ExactlyOneEOFLast ==
    StreamOver =>
        /\ Stream # <<>>
        /\ Stream[Len(Stream)] = EOF
        /\ \A i \in 1..(Len(Stream) - 1) : Stream[i] # EOF

\* C2: once a pull has returned EOF the tokenizer is marked exhausted and
\* every later pull yields nothing.
C2_NothingAfterEOF ==
    \A i \in 1..Len(yielded) :
        yielded[i] = EOF =>
            /\ end
            /\ \A j \in (i + 1)..Len(yielded) : yielded[j] = None

C2_Witness ==
    /\ Len(yielded) >= 4
    /\ yielded[Len(yielded) - 2] = EOF
    /\ yielded[Len(yielded) - 1] = None
    /\ yielded[Len(yielded)] = None

\* C3: construction returns the failure UnexpectedChar(c), c the first
\* character that could not be classified, exactly when the first pull
\* produces no token; otherwise it succeeds and the current token is the
\* first token of the stream.
C3_ConstructionResult ==
    (parser.result # "absent" /\ yielded # <<>>) =>
        IF yielded[1] = None
        THEN /\ parser.result = "Err"
             /\ unclassified # <<>>
             /\ parser.char = <<unclassified[1]>>
        ELSE /\ parser.result = "Ok"
             /\ parser.current_token = yielded[1]

\* C4: when a top-level pull meets an unclassifiable character after at
\* least one token has been yielded, that pull yields nothing, every later
\* pull yields nothing, and no EOF is ever yielded.
C4_HaltedAfterUnclassified ==
    \A i \in 2..Len(yielded) :
        (/\ yielded[i] = None
         /\ \A k \in 1..(i - 1) : yielded[k] \notin {None, EOF}) =>
            \A j \in (i + 1)..Len(yielded) : yielded[j] = None

\* C5: the unexpected-character field is empty until a pull fails to
\* classify a character, and afterwards holds the first character that no
\* rule could classify.
C5_UnexpectedCharRecorded ==
    IF unclassified = <<>>
    THEN unexpected_char = <<>>
    ELSE unexpected_char = <<unclassified[1]>>

\* ------------------------------------------------------ function grouping
RECURSIVE NoEmptySlot(_)
NoEmptySlot(tok) ==
    tok.type = "Function" =>
        \A i \in 1..Len(tok.args) :
            /\ tok.args[i] # <<>>
            /\ \A j \in 1..Len(tok.args[i]) : NoEmptySlot(tok.args[i][j])

One == Number(<<"1">>)
Two == Number(<<"2">>)

\* C9: no Function token, at any nesting level, has an empty argument
\* slot; a separator or a close met with an empty buffer adds no slot;
\* "f<1,,2>" yields the two slots [1] and [2].
C9_NoEmptySlot ==
    /\ \A i \in 1..Len(yielded) : NoEmptySlot(yielded[i])
    /\ \A k \in 1..Len(log) :
           (/\ log[k].token \in {Comma, RightFuncParen}
            /\ log[k].before.current_param = <<>>) =>
               log[k].after.args = log[k].before.args
    /\ (original_expression = <<"f", "<", "1", ",", ",", "2", ">">>
            /\ yielded # <<>>) =>
           yielded[1] = Function(<<"f">>, <<<<One>>, <<Two>>>>)
    /\ (original_expression = <<"f", "<", ">">> /\ yielded # <<>>) =>
           yielded[1] = Function(<<"f">>, <<>>)

C9_Witness ==
    /\ original_expression = <<"f", "<", "1", ",", ",", "2", ">">>
    /\ Len(yielded) = 1
    /\ Len(yielded[1].args) = 2
    /\ \E k \in 1..Len(log) :
           log[k].token = Comma /\ log[k].before.current_param = <<>>

UnmatchedCloser(rec) ==
    \/ rec.token = RightSmallParen /\ rec.before.paren = 0
    \/ rec.token = RightMidParen /\ rec.before.bracket = 0
    \/ rec.token = RightBigParen /\ rec.before.brace = 0

\* C10: inside function grouping a closing bracket that arrives while its
\* own counter is 0 is dropped: the buffer, the slots and the counters are
\* as before, the paren, bracket and brace counters are never negative,
\* and "f<1)+2>" gives the single slot [1, Add, 2].
C10_UnmatchedCloserDropped ==
    /\ \A k \in 1..Len(log) :
           /\ log[k].after.paren >= 0
           /\ log[k].after.bracket >= 0
           /\ log[k].after.brace >= 0
           /\ UnmatchedCloser(log[k]) => log[k].after = log[k].before
    /\ (original_expression = <<"f", "<", "1", ")", "+", "2", ">">>
            /\ yielded # <<>>) =>
           yielded[1] = Function(<<"f">>, <<<<One, Add, Two>>>>)

C10_Witness ==
    /\ original_expression = <<"f", "<", "1", ")", "+", "2", ">">>
    /\ Len(yielded) = 1
    /\ yielded[1].type = "Function"
    /\ \E k \in 1..Len(log) :
           log[k].token = RightSmallParen /\ UnmatchedCloser(log[k])
\* ----------------------------------------------- the text, read by index
Classified ==
    AsciiDigits \cup AsciiLetters \cup Whitespaces
        \cup DOMAIN SingleCharTokens \cup {",", "<", ">"}

IsFlat(text) ==
    \A i \in 1..Len(text) :
        text[i] \in AsciiDigits \cup AsciiLetters \cup Whitespaces
                        \cup DOMAIN SingleCharTokens

\* the last index of the maximal run of characters of P that starts at i
RunEnd(text, i, P) ==
    CHOOSE j \in i..Len(text) :
        /\ \A k \in i..j : text[k] \in P
        /\ j = Len(text) \/ text[j + 1] \notin P

StartsNumber(text, i) ==
    text[i] \in AsciiDigits /\ (i = 1 \/ text[i - 1] \notin AsciiDigits)

\* a letter starts an identifier unless a letter precedes it with nothing
\* but whitespace in between
StartsIdent(text, i) ==
    /\ text[i] \in AsciiLetters
    /\ ~ \E k \in 1..(i - 1) :
             /\ text[k] \in AsciiLetters
             /\ \A m \in (k + 1)..(i - 1) : text[m] \in Whitespaces

IsLetter(c) == c \in AsciiLetters

IdentName(text, i) ==
    SelectSeq(SubSeq(text, i, RunEnd(text, i, AsciiLetters \cup Whitespaces)),
              IsLetter)

RECURSIVE IntValue(_)
IntValue(d) ==
    IF d = <<>> THEN 0
    ELSE 10 * IntValue(SubSeq(d, 1, Len(d) - 1)) + DigitValue(d[Len(d)])

\* the token the text calls for at index i
Matches(tok, text, i) ==
    IF text[i] \in DOMAIN SingleCharTokens THEN tok = SingleCharTokens[text[i]]
    ELSE IF text[i] \in AsciiDigits
    THEN /\ tok.type = "Number"
         /\ Len(tok.value) = 1 \/ tok.value[1] # "0"
         /\ IntValue(tok.value)
                = IntValue(SubSeq(text, i, RunEnd(text, i, AsciiDigits)))
    ELSE tok = Variable(IdentName(text, i))

RECURSIVE TokenStarts(_, _)
TokenStarts(text, i) ==
    IF i > Len(text) THEN <<>>
    ELSE IF \/ text[i] \in DOMAIN SingleCharTokens
            \/ StartsNumber(text, i)
            \/ StartsIdent(text, i)
         THEN <<i>> \o TokenStarts(text, i + 1)
         ELSE TokenStarts(text, i + 1)

ComplexExample ==
    <<"1"," ","+"," ","2"," ","*"," ","3"," ","-"," ","4"," ","/"," ","5",
      " ","^"," ","(","6"," ","+"," ","x",")">>

Openers == {"(", "[", "{", "<"}

Partner ==
    [c \in {")", "]", "}", ">"} |->
        CASE c = ")" -> "(" [] c = "]" -> "[" [] c = "}" -> "{"
          [] c = ">" -> "<"]

NoCall == [ok |-> FALSE, segs |-> <<>>, rest |-> <<>>]

\* The body of a call whose "<" is at index i - 1 ... : the segments
\* between the commas that lie outside every bracket of the body, up to the
\* ">" that closes the call, and the text after it.  ok is false when the
\* brackets of the body do not nest, the call is not closed, or a character
\* of the body is not classified.
RECURSIVE SplitCall(_, _, _, _, _)
SplitCall(text, i, stack, cur, segs) ==
    IF i > Len(text) THEN NoCall
    ELSE LET c == text[i]
         IN IF c \notin Classified THEN NoCall
            ELSE IF c \in Openers
            THEN SplitCall(text, i + 1, <<c>> \o stack, Append(cur, c), segs)
            ELSE IF c \in DOMAIN Partner
            THEN IF stack = <<>>
                 THEN IF c = ">"
                      THEN [ok |-> TRUE, segs |-> Append(segs, cur),
                            rest |-> SubSeq(text, i + 1, Len(text))]
                      ELSE NoCall
                 ELSE IF Head(stack) = Partner[c]
                      THEN SplitCall(text, i + 1, Tail(stack),
                                     Append(cur, c), segs)
                      ELSE NoCall
            ELSE IF c = "," /\ stack = <<>>
            THEN SplitCall(text, i + 1, stack, <<>>, Append(segs, cur))
            ELSE SplitCall(text, i + 1, stack, Append(cur, c), segs)

DropSpaces(text) == TakeRun(text, Whitespaces).rest

\* the text starts, after whitespace, with an identifier followed by "<"
IsCallStart(text) ==
    LET t == DropSpaces(text)
    IN /\ t # <<>>
       /\ t[1] \in AsciiLetters
       /\ LET j == RunEnd(t, 1, AsciiLetters \cup Whitespaces)
          IN j < Len(t) /\ t[j + 1] = "<"

CallName(text) == IdentName(DropSpaces(text), 1)

CallSplit(text) ==
    LET t == DropSpaces(text)
        j == RunEnd(t, 1, AsciiLetters \cup Whitespaces)
    IN SplitCall(t, j + 2, <<>>, <<>>, <<>>)

\* the tokens of a segment of text taken on its own
RECURSIVE SegmentTokens(_)
SegmentTokens(seg) ==
    LET r == next_token_internal(seg, FALSE, TRUE, TRUE, 0)
    IN IF r.panic \/ r.tok \in {EOF, None} THEN <<>>
       ELSE <<r.tok>> \o SegmentTokens(r.expression)

NonEmpty(s) == s # <<>>

SlotsOf(segs) ==
    SelectSeq([i \in 1..Len(segs) |-> SegmentTokens(segs[i])], NonEmpty)

EmptySegments(segs) ==
    Cardinality({i \in 1..Len(segs) : SegmentTokens(segs[i]) = <<>>})

\* what a pull that starts at a well-formed call must produce
CallAsClaimed(text, tok, rest) ==
    (IsCallStart(text) /\ CallSplit(text).ok) =>
        LET c == CallSplit(text)
        IN /\ tok.type = "Function"
           /\ tok.function_prefix = CallName(text)
           /\ Len(tok.args) = Len(c.segs) - EmptySegments(c.segs)
           /\ tok.args = SlotsOf(c.segs)
           /\ rest = c.rest

Zero == Number(<<"0">>)

NvlExample == <<"n", "v", "l", "<", "1", ",", "0", ">">>

\* C7: a well-formed call name<a1,...,an> yields one Function token named
\* name; its slots are the token sequences of the non-empty segments, in
\* order, so their number is the number of separating commas plus one
\* minus the empty segments; what follows the closing ">" is scanned next
\* ("nvl<1,0>" gives the Function and then EOF).
C7_WellFormedCall ==
    /\ (status = "running" /\ yielded # <<>>) =>
           CallAsClaimed(before, yielded[Len(yielded)], expression)
    /\ \A k \in 1..Len(log) :
           CallAsClaimed(log[k].at, log[k].token, log[k].rest)
    /\ (original_expression = NvlExample /\ Len(yielded) >= 2) =>
           /\ yielded[1] = Function(<<"n", "v", "l">>, <<<<One>>, <<Zero>>>>)
           /\ yielded[2] = EOF

C7_Witness ==
    /\ original_expression =
           <<"f","<","g","<","1",",",",","2",">",",",",","x",">">>
    /\ Len(yielded) = 2
    /\ yielded[1] = Function(<<"f">>,
           << <<Function(<<"g">>, <<<<One>>, <<Two>>>>)>>,
              <<Variable(<<"x">>)>> >>)
    /\ yielded[2] = EOF

IsSeparated(text) ==
    \A i \in 1..Len(text) :
        text[i] \in AsciiDigits \cup AsciiLetters \cup Whitespaces
                        \cup DOMAIN SingleCharTokens \cup {",", ">"}

\* C11: top-level iteration never yields Comma or RightFuncParen; a ","
\* or ">" met by a top-level pull produces no token and the pull returns
\* the token that follows it, or EOF.
C11_TopLevelSkips ==
    /\ \A i \in 1..Len(yielded) : yielded[i] \notin {Comma, RightFuncParen}
    /\ IsSeparated(original_expression) =>
           LET starts == TokenStarts(original_expression, 1)
               n == Len(starts)
           IN /\ Len(Stream) <= n + 1
              /\ StreamOver => Len(Stream) = n + 1
              /\ \A k \in 1..Len(Stream) :
                     IF k <= n
                     THEN Matches(Stream[k], original_expression, starts[k])
                     ELSE Stream[k] = EOF

C11_Witness ==
    /\ original_expression = <<">", ",", "1">>
    /\ yielded = <<One, EOF>>

\* what a pull that starts on a letter must produce
IdentifierAsClaimed(text, tok, rest) ==
    LET t == DropSpaces(text)
    IN (t # <<>> /\ t[1] \in AsciiLetters) =>
           LET j == RunEnd(t, 1, AsciiLetters \cup Whitespaces)
           IN IF j < Len(t) /\ t[j + 1] = "<"
              THEN /\ tok.type = "Function"
                   /\ tok.function_prefix = IdentName(t, 1)
              ELSE /\ tok = Variable(IdentName(t, 1))
                   /\ rest = SubSeq(t, j + 1, Len(t))

\* C12: an identifier is the letters, in order, of the maximal run of
\* letters and whitespace that starts at its first letter; the pull yields
\* a Function token when the character after that run is "<" and a
\* Variable with that identifier otherwise.
C12_Identifier ==
    /\ (status = "running" /\ yielded # <<>>) =>
           IdentifierAsClaimed(before, yielded[Len(yielded)], expression)
    /\ \A k \in 1..Len(log) :
           IdentifierAsClaimed(log[k].at, log[k].token, log[k].rest)

C12_Witness ==
    /\ original_expression =
           <<"a"," ","b"," ","<"," ","1"," ",">","0","0","7">>
    /\ yielded = <<Function(<<"a", "b">>, <<<<One>>>>), Number(<<"7">>)>>

\* ------------------------------------------- the arms of the grouping loop
AppendedTo(st, tok) == [st EXCEPT !.current_param = Append(@, tok)]

SlotClosed(st) ==
    [st EXCEPT !.current_param = <<>>,
               !.args = IF st.current_param = <<>> THEN @
                        ELSE Append(@, st.current_param)]

InBrackets(st) == st.paren > 0 \/ st.bracket > 0 \/ st.brace > 0

\* C17 as stated: a comma is appended when a paren, bracket or brace is
\* open; otherwise it separates if and only if angle equals 1.
C17_CommaSeparatesOnlyAtOne ==
    \A k \in 1..Len(log) :
        log[k].token = Comma =>
            log[k].after =
                IF InBrackets(log[k].before)
                THEN AppendedTo(log[k].before, Comma)
                ELSE IF log[k].before.angle = 1
                THEN SlotClosed(log[k].before)
                ELSE AppendedTo(log[k].before, Comma)

\* C17, amended: a comma is appended when a paren, bracket or brace is
\* open; otherwise it separates if and only if angle equals 0 or 1.
C17_CommaDispatch ==
    \A k \in 1..Len(log) :
        log[k].token = Comma =>
            log[k].after =
                IF InBrackets(log[k].before)
                THEN AppendedTo(log[k].before, Comma)
                ELSE IF log[k].before.angle \in {0, 1}
                THEN SlotClosed(log[k].before)
                ELSE AppendedTo(log[k].before, Comma)

C17_Witness ==
    /\ original_expression = <<"f","<","(",">",")",",","1",">">>
    /\ Len(yielded) = 1
    /\ \E k \in 1..Len(log) :
           /\ log[k].token = Comma
           /\ log[k].before.angle = 0
           /\ ~ InBrackets(log[k].before)
           /\ log[k].after.args = <<<<LeftSmallParen>>>>
    /\ \E k \in 1..Len(log) :
           log[k].token = RightFuncParen /\ log[k].after.angle = -1

AngleLowered(st) == [st EXCEPT !.angle = @ - 1]

ClosesCall(st) ==
    st.angle = 0 /\ st.paren = 0 /\ st.bracket = 0 /\ st.brace = 0

\* C18 as stated: ">" lowers angle and closes the call exactly when angle
\* reaches 0 with no bracket open; every other ">" is appended.
C18_EveryOtherCloserAppended ==
    \A k \in 1..Len(log) :
        log[k].token = RightFuncParen =>
            LET d == AngleLowered(log[k].before)
            IN log[k].after =
                   IF ClosesCall(d) THEN [SlotClosed(d) EXCEPT !.done = TRUE]
                   ELSE AppendedTo(d, RightFuncParen)

\* C18, amended: ">" lowers angle and closes the call exactly when angle
\* reaches 0 with no bracket open; a ">" that does not close the call is
\* appended when angle is still greater than 0 and dropped otherwise.
C18_CloserDispatch ==
    \A k \in 1..Len(log) :
        log[k].token = RightFuncParen =>
            LET d == AngleLowered(log[k].before)
            IN log[k].after =
                   IF ClosesCall(d) THEN [SlotClosed(d) EXCEPT !.done = TRUE]
                   ELSE IF d.angle > 0 THEN AppendedTo(d, RightFuncParen)
                   ELSE d

C18_Witness ==
    /\ original_expression = <<"f", "<", "(", ">">>
    /\ Len(yielded) = 1
    /\ yielded[1] = Function(<<"f">>, <<<<LeftSmallParen, EOF>>>>)
    /\ \E k \in 1..Len(log) :
           /\ log[k].token = RightFuncParen
           /\ log[k].after.angle = 0
           /\ log[k].after.current_param = log[k].before.current_param
           /\ ~ log[k].after.done

OpenerCounted(rec) ==
    CASE rec.token = LeftSmallParen ->
             [rec.before EXCEPT !.paren = @ + 1]
      [] rec.token = LeftMidParen ->
             [rec.before EXCEPT !.bracket = @ + 1]
      [] rec.token = LeftBigParen ->
             [rec.before EXCEPT !.brace = @ + 1]

MatchedCloser(rec) ==
    \/ rec.token = RightSmallParen /\ rec.before.paren > 0
    \/ rec.token = RightMidParen /\ rec.before.bracket > 0
    \/ rec.token = RightBigParen /\ rec.before.brace > 0

CloserCounted(rec) ==
    CASE rec.token = RightSmallParen ->
             [rec.before EXCEPT !.paren = @ - 1]
      [] rec.token = RightMidParen ->
             [rec.before EXCEPT !.bracket = @ - 1]
      [] rec.token = RightBigParen ->
             [rec.before EXCEPT !.brace = @ - 1]

OpenersAppended ==
    \A k \in 1..Len(log) :
        log[k].token \in {LeftSmallParen, LeftMidParen, LeftBigParen} =>
            log[k].after = AppendedTo(OpenerCounted(log[k]), log[k].token)

\* C19 as stated: every opening bracket raises its counter and is
\* appended; every closing bracket whose counter is above 0 lowers it and
\* is appended, whatever the other counters.
C19_BracketsAlike ==
    /\ OpenersAppended
    /\ \A k \in 1..Len(log) :
           MatchedCloser(log[k]) =>
               log[k].after = AppendedTo(CloserCounted(log[k]), log[k].token)

\* C19, amended: as stated for the opening brackets, "]" and "}"; a ")"
\* whose counter is above 0 lowers it and is appended unless paren, angle,
\* bracket and brace are then all at most 0, and is dropped in that case.
C19_BracketDispatch ==
    /\ OpenersAppended
    /\ \A k \in 1..Len(log) :
           MatchedCloser(log[k]) =>
               LET d == CloserCounted(log[k])
               IN log[k].after =
                      IF log[k].token = RightSmallParen /\ d.angle <= 0
                             /\ ~ InBrackets(d)
                      THEN d
                      ELSE AppendedTo(d, log[k].token)

C19_Witness ==
    /\ original_expression = <<"f", "<", "(", ">", ")">>
    /\ Len(yielded) = 1
    /\ yielded[1] = Function(<<"f">>, <<<<LeftSmallParen, EOF>>>>)
    /\ \E k \in 1..Len(log) :
           /\ log[k].token = RightSmallParen
           /\ log[k].before.paren = 1
           /\ log[k].after.paren = 0
           /\ log[k].after.current_param = <<LeftSmallParen>>

\* the grouping loop pulled the end of the input
InputEnded(rec) == rec.token = EOF \/ (rec.token = None /\ rec.at = <<>>)

RECURSIVE EOFOnlyLast(_)
EOFOnlyLast(tok) ==
    tok.type = "Function" =>
        \A i \in 1..Len(tok.args) : \A j \in 1..Len(tok.args[i]) :
            /\ tok.args[i][j] = EOF =>
                   i = Len(tok.args) /\ j = Len(tok.args[i])
            /\ EOFOnlyLast(tok.args[i][j])

\* C20: when the input ends while a call is open, grouping appends EOF to
\* the current buffer, closes it as the final slot and returns; the pull
\* yields a Function token whose last slot ends with EOF, and EOF is at no
\* other position of a call's own slots.
C20_UnterminatedCall ==
    /\ \A k \in 1..Len(log) :
           InputEnded(log[k]) =>
               log[k].after =
                   [log[k].before EXCEPT
                       !.current_param = <<>>,
                       !.args = Append(@, Append(log[k].before.current_param,
                                                 EOF)),
                       !.done = TRUE]
    /\ (status = "running" /\ log # <<>> /\ InputEnded(log[Len(log)])) =>
           LET tok == yielded[Len(yielded)]
           IN /\ tok.type = "Function"
              /\ tok.args # <<>>
              /\ LET slot == tok.args[Len(tok.args)]
                 IN slot[Len(slot)] = EOF
    /\ \A i \in 1..Len(yielded) : EOFOnlyLast(yielded[i])

C20_Witness ==
    /\ original_expression = <<"f","<","g","<","1",",","2">>
    /\ end
    /\ yielded = << Function(<<"f">>,
                      << <<Function(<<"g">>, <<<<One>>, <<Two, EOF>>>>),
                           EOF>> >>) >>

\* ------------------------------------------------------------ digit runs
\* a pull has been made from the text held in before
Pulled == yielded # <<>> \/ (status = "panicked" /\ returned.op = "none")

\* the digits of the run's value: the run without its leading zeros
ValueDigits(run) ==
    LET nz == {i \in 1..Len(run) : run[i] # "0"}
    IN IF nz = {} THEN <<"0">>
       ELSE SubSeq(run, CHOOSE i \in nz : \A k \in nz : i <= k, Len(run))

\* C13: a run of decimal digits of any length is consumed by one pull and
\* yields exactly one Number token whose value is the run's exact integer
\* value; the pull never fails.
C13_DigitRunIsOneNumber ==
    Pulled =>
        LET t == DropSpaces(before)
        IN (t # <<>> /\ t[1] \in AsciiDigits) =>
               LET j == RunEnd(t, 1, AsciiDigits)
               IN /\ status = "running"
                  /\ yielded[Len(yielded)]
                         = Number(ValueDigits(SubSeq(t, 1, j)))
                  /\ expression = SubSeq(t, j + 1, Len(t))

\* ------------------------------------------------------------ round trip
NonFunction(text) == \A i \in 1..Len(text) : text[i] # "<"

\* C14: for every input without a function call, the tokens of the input,
\* written with their symbols and tokenized again, are the same tokens.
C14_RoundTrip ==
    (returned.op = "fmt" /\ NonFunction(original_expression)) =>
        /\ ~ returned.panic
        /\ SelectSeq(returned.again, NotEOF)
               = SelectSeq(returned.tokens, NotEOF)

\* ------------------------------------------------------------ precedence
ClaimedLevel(type) ==
    CASE type \in {"Add", "Sub"} -> "AddOrSubtract"
      [] type \in {"Mul", "Div"} -> "MultiplyOrDivide"
      [] type = "Caret" -> "Power"
      [] type = "Function" -> "Function"
      [] OTHER -> "Default"

ClaimedOrder ==
    <<"Default", "AddOrSubtract", "MultiplyOrDivide", "Power", "Negative",
      "Function">>

\* C15: the precedence lookup maps Add and Sub to AddOrSubtract, Mul and
\* Div to MultiplyOrDivide, Caret to Power, a Function token to Function
\* and every other token to Default, changing nothing else; the levels are
\* strictly ordered Default < AddOrSubtract < MultiplyOrDivide < Power <
\* Negative < Function.
C15_Precedence ==
    /\ returned.op = "get_precedence" =>
           /\ returned.level = ClaimedLevel(returned.token.type)
           /\ status = "running"
           /\ parser.result = "Ok"
           /\ yielded = <<parser.current_token>>
    /\ \A i, j \in 1..Len(ClaimedOrder) :
           precedence_lt(ClaimedOrder[i], ClaimedOrder[j]) <=> i < j

C15_Witness ==
    /\ returned.op = "get_precedence"
    /\ parser.current_token = Caret
    /\ returned.token = Caret
    /\ returned.level = "Power"

\* ---------------------------------------------------------- state export
Exported == returned.op = "serialize" /\ ~ returned.panic

\* C16: an export leaves the scan position, the exhaustion flag, the
\* unexpected character and the original text as they were, so the next
\* pull yields the first exported token; the record holds the original
\* text, the exhaustion flag at the time of the export (false for a fresh
\* engine) and the tokens the engine yields by iteration (4 for "1 + 2",
\* 2 for "nvl<1,0>").
C16_ExportLeavesEngine ==
    /\ [](Exported =>
            /\ returned.original_expression = original_expression
            /\ returned.end = end
            /\ yielded = <<>> => ~ returned.end
            /\ (IsFlat(original_expression) /\ Nones(yielded) = 0) =>
                   LET all == yielded \o returned.tokens
                       starts == TokenStarts(original_expression, 1)
                       n == Len(starts)
                   IN /\ Len(all) = n + 1
                      /\ all[n + 1] = EOF
                      /\ \A k \in 1..n :
                             Matches(all[k], original_expression, starts[k])
            /\ (yielded = <<>> /\ original_expression = NvlExample) =>
                   returned.tokens
                       = <<Function(<<"n", "v", "l">>, <<<<One>>, <<Zero>>>>),
                           EOF>>
            /\ (yielded = <<>>
                    /\ original_expression = <<"1", " ", "+", " ", "2">>) =>
                   Len(returned.tokens) = 4)
    /\ [][/\ returned'.op = "serialize" =>
                 UNCHANGED <<original_expression, expression, end,
                             unexpected_char, yielded>>
          /\ (Exported /\ yielded' # yielded) =>
                 yielded'[Len(yielded')] =
                     IF returned.tokens = <<>> THEN None
                     ELSE Head(returned.tokens)]_vars

C16_Witness ==
    /\ Exported
    /\ original_expression = <<"1", " ", "+", " ", "2">>
    /\ expression = <<" ", "+", " ", "2">>
    /\ yielded = <<One>>
    /\ returned.tokens = <<Add, Two, EOF>>

\* -------------------------------------------------- opening angle brackets
\* the first iteration of a grouping loop
OwnOpener(rec) == rec.before = InitialGrouping

AngleRaised(st) == [st EXCEPT !.angle = @ + 1]

\* the text once the whitespace, commas and closing angle brackets that a
\* top-level pull skips are dropped
TopSkip(text) == TakeRun(text, Whitespaces \cup {",", ">"}).rest

\* a top-level pull that meets "<" yields LeftFuncParen and consumes it
TopLevelOpener ==
    (status = "running" /\ yielded # <<>>) =>
        LET t == TopSkip(before)
        IN (t # <<>> /\ t[1] = "<") =>
               /\ yielded[Len(yielded)] = LeftFuncParen
               /\ expression = Tail(t)

OwnOpenerConsumed ==
    \A k \in 1..Len(log) :
        OwnOpener(log[k]) =>
            /\ log[k].token = LeftFuncParen
            /\ log[k].after = AngleRaised(log[k].before)
            /\ log[k].after.angle = 1

\* C21 as stated: the call's own "<" is consumed by grouping, is not
\* appended and leaves angle at 1; every further "<" met inside the call
\* raises angle above 1 and is appended as LeftFuncParen; a top-level "<"
\* is yielded as LeftFuncParen.
C21_EveryFurtherOpenerAppended ==
    /\ OwnOpenerConsumed
    /\ \A k \in 1..Len(log) :
           (log[k].token = LeftFuncParen /\ ~ OwnOpener(log[k])) =>
               /\ log[k].after.angle > 1
               /\ log[k].after
                      = AppendedTo(AngleRaised(log[k].before), LeftFuncParen)
    /\ TopLevelOpener

\* C21, amended: the call's own "<" is consumed by grouping, is not
\* appended and leaves angle at 1; every further "<" met inside the call
\* raises angle and is appended as LeftFuncParen when angle is then above
\* 1, and is dropped otherwise; a top-level "<" is yielded as
\* LeftFuncParen.
C21_OpenerDispatch ==
    /\ OwnOpenerConsumed
    /\ \A k \in 1..Len(log) :
           (log[k].token = LeftFuncParen /\ ~ OwnOpener(log[k])) =>
               LET r == AngleRaised(log[k].before)
               IN log[k].after =
                      IF r.angle > 1 THEN AppendedTo(r, LeftFuncParen) ELSE r
    /\ TopLevelOpener

C21_Witness ==
    /\ original_expression = <<"f", "<", "(", ">", "<">>
    /\ yielded = <<Function(<<"f">>, <<<<LeftSmallParen, EOF>>>>)>>
    /\ \E k \in 1..Len(log) :
           /\ log[k].token = LeftFuncParen
           /\ ~ OwnOpener(log[k])
           /\ log[k].before.angle = 0
           /\ log[k].after.angle = 1
           /\ log[k].after.current_param = <<LeftSmallParen>>

\* C24 as stated: during grouping angle is never negative; after the
\* call's opening "<" it is at least 1 until the ">" that closes the call
\* brings it to 0, and no ">" is processed while angle is 0.
C24_AngleNeverNegative ==
    \A k \in 1..Len(log) :
        /\ OwnOpener(log[k]) \/ log[k].before.angle >= 1
        /\ \/ log[k].after.angle >= 1
           \/ /\ log[k].after.angle = 0
              /\ log[k].token = RightFuncParen
              /\ log[k].after.done

\* C24, amended: during grouping angle is 1 after the call's opening "<"
\* and stays at least 1 until a ">" brings it to 0; that ">" closes the
\* call only when no paren, bracket or brace is open; when one is open,
\* grouping goes on with angle 0, and a ">" processed then makes angle
\* negative.
C24_AngleLeavesOnlyInBrackets ==
    /\ OwnOpenerConsumed
    /\ \A k \in 1..Len(log) :
           log[k].before.angle >= 1 =>
               \/ log[k].after.angle >= 1
               \/ /\ log[k].token = RightFuncParen
                  /\ log[k].before.angle = 1
                  /\ log[k].after.angle = 0
                  /\ log[k].after.done <=> ~ InBrackets(log[k].before)
    /\ \A k \in 1..Len(log) :
           log[k].after.angle < log[k].before.angle =>
               log[k].token = RightFuncParen

C24_Witness ==
    /\ original_expression = <<"f", "<", "(", ">", ">">>
    /\ Len(yielded) = 1
    /\ \E k \in 1..Len(log) :
           /\ log[k].token = RightFuncParen
           /\ log[k].before.angle = 0
           /\ log[k].after.angle = -1
           /\ ~ log[k].after.done

\* ------------------------------------------------- EOF inside a call
RECURSIVE HoldsEOF(_)
HoldsEOF(tok) ==
    /\ tok.type = "Function"
    /\ \E i \in 1..Len(tok.args) : \E j \in 1..Len(tok.args[i]) :
           tok.args[i][j] = EOF \/ HoldsEOF(tok.args[i][j])

\* C25: whenever a yielded Function token holds EOF in a slot, the
\* exhaustion flag is set and later pulls yield no token.
C25_EOFMeansExhausted ==
    \A i \in 1..Len(yielded) :
        HoldsEOF(yielded[i]) =>
            /\ end
            /\ \A j \in (i + 1)..Len(yielded) : yielded[j] = None

\* ------------------------------------------------------------ termination
\* what is left to do: the characters not yet consumed, and the end of
\* the input not yet reported
Measure == Len(expression) + IF end THEN 0 ELSE 1

MeasureAfter == Len(expression') + IF end' THEN 0 ELSE 1

Tokens == {i \in 1..Len(yielded) : yielded[i] # None}

\* C22: every iteration of a grouping loop consumes at least one character
\* or ends the loop; every pull made before the input is exhausted brings
\* the engine closer to exhaustion, and every pull made after it yields
\* nothing and changes nothing, so that after finitely many pulls all
\* pulls yield nothing; at most input length plus one tokens are yielded.
C22_PullsTerminate ==
    /\ [](/\ \A k \in 1..Len(log) :
                Len(log[k].rest) < Len(log[k].at) \/ log[k].after.done
          /\ Cardinality(Tokens) <= Len(original_expression) + 1
          /\ end => expression = <<>>)
    /\ [][yielded' # yielded =>
              IF end
              THEN /\ yielded' = Append(yielded, None)
                   /\ end'
                   /\ expression' = expression
              ELSE MeasureAfter < Measure]_vars

C22_Witness ==
    /\ original_expression = <<"1", "#", "2">>
    /\ yielded = <<One, None, Two, EOF, None>>
    /\ end
    /\ Measure = 0

\* ------------------------------------------------------------ two engines
\* the results of the first n pulls on a tokenizer that is pulled alone
RECURSIVE Alone(_, _, _)
Alone(expr, e, n) ==
    IF n = 0 THEN <<>>
    ELSE LET r == next_token_internal(expr, e, FALSE, FALSE, 0)
         IN <<r.tok>> \o Alone(r.expression, r.end, n - 1)

Min(a, b) == IF a < b THEN a ELSE b

====
